---- MODULE Spec2Model ----
(***************************************************************************)
(* Model of src/monitor.py: one invocation of main() is the pipeline       *)
(*   configure -> test e-mail -> load state -> check each URL -> save      *)
(*   -> notify -> return,                                                  *)
(* and an external scheduler starts the next invocation once the previous  *)
(* one has ended.  The process environment, the content of                 *)
(* website_hashes.json and the outcome of every network or file operation  *)
(* are inputs.  SMTP_SERVER and SMTP_PORT are taken to be well formed.     *)
(***************************************************************************)
EXTENDS Integers, Sequences, FiniteSets, TLC

(* ---------------------------------------------------------------- bounds *)
\* Longest WEBSITES_TO_MONITOR string that is enumerated.
MaxEnvLen == 3

(* ---------------------------------------------------------------- values *)
\* Characters a WEBSITES_TO_MONITOR string is made of.
Chars == {"a", "b", ",", " "}
EnvStrings == UNION {[1..k -> Chars] : k \in 0..MaxEnvLen}

\* Response bodies a server may return.
Bodies == {"B1", "B2"}

\* Python's None, as returned by get_page_hash on failure.
None == "None"

\* hashlib.sha256(text.encode()).hexdigest(): a digest per body, distinct
\* bodies having distinct digests.
sha256(body) == CASE body = "B1" -> "H1"
                  [] body = "B2" -> "H2"
Digests == {sha256(b) : b \in Bodies}

\* What requests.get() followed by raise_for_status() may yield.
FetchOutcomes == {[ok |-> FALSE, body |-> ""]} \cup {[ok |-> TRUE, body |-> b] : b \in Bodies}

\* Targets that a state file left by earlier use may mention.
StoredTargets == {<<"a">>, <<"b">>}

EmptyDict == [t \in {} |-> None]
Dict(d) == [kind |-> "dict", dict |-> d, list |-> <<>>]
List(l) == [kind |-> "list", dict |-> EmptyDict, list |-> l]

\* Content of website_hashes.json: absent; present but not loadable (not
\* JSON, or a JSON number, boolean or null, on which len() raises); a JSON
\* array; a JSON object from target to digest.  A JSON string behaves as an
\* array does (the "in" test succeeds on a substring, the subscript raises)
\* and is not enumerated separately.
FileMissing == [kind |-> "missing", dict |-> EmptyDict, list |-> <<>>]
FileCorrupt == [kind |-> "corrupt", dict |-> EmptyDict, list |-> <<>>]
Files == {FileMissing, FileCorrupt}
         \cup {List(l) : l \in {<<>>} \cup {<<t>> : t \in StoredTargets}}
         \cup {Dict(d) : d \in UNION {[S -> Digests] : S \in SUBSET StoredTargets}}

Environments == [WEBSITES_TO_MONITOR : [set : {FALSE}, val : {<<>>}]
                                       \cup [set : {TRUE}, val : EnvStrings],
                 SENDER_EMAIL : BOOLEAN, SENDER_PASSWORD : BOOLEAN,
                 RECEIVER_EMAIL : BOOLEAN, DISCORD_WEBHOOK_URL : BOOLEAN]

NotCalled == [called |-> FALSE, arg |-> <<>>, result |-> "none"]

VARIABLES
    env,              \* os.environ of the running process
    file,             \* website_hashes.json
    hist,             \* what the last two completed invocations did
    pc,               \* position in main()
    websites,         \* main: websites
    email_works,      \* main: email_works
    previous_hashes,  \* main: previous_hashes
    current_hashes,   \* main: current_hashes
    changed_sites,    \* main: changed_sites
    fetched,          \* outcome of get_page_hash's request per list position
    saved,            \* outcome of save_hashes in this invocation
    ops,              \* network and file operations performed in this invocation
    email,            \* the call of send_email_notification, if any
    discord,          \* the call of send_discord_notification, if any
    stdout,           \* the error lines printed in this invocation
    exit_code         \* the exit status of the process (-1 while running)

vars == <<env, file, hist, pc, websites, email_works, previous_hashes,
          current_hashes, changed_sites, fetched, saved, ops, email, discord, stdout, exit_code>>

(* ------------------------------------------------------- pure operators *)
\* str.split(',')
RECURSIVE Split(_)
Split(s) ==
    IF \A k \in 1..Len(s) : s[k] # ","
    THEN <<s>>
    ELSE LET k == CHOOSE j \in 1..Len(s) : s[j] = "," /\ \A m \in 1..(j-1) : s[m] # ","
         IN  <<SubSeq(s, 1, k-1)>> \o Split(SubSeq(s, k+1, Len(s)))

\* str.strip()
RECURSIVE Strip(_)
Strip(s) ==
    IF s = <<>> THEN s
    ELSE IF Head(s) = " " THEN Strip(Tail(s))
    ELSE IF s[Len(s)] = " " THEN Strip(SubSeq(s, 1, Len(s)-1))
    ELSE s

\* [url.strip() for url in websites_env.split(',') if url.strip()]
RECURSIVE StripAll(_)
StripAll(parts) ==
    IF parts = <<>> THEN <<>>
    ELSE (IF Strip(Head(parts)) # <<>> THEN <<Strip(Head(parts))>> ELSE <<>>)
         \o StripAll(Tail(parts))

ParseWebsites(s) == StripAll(Split(s))

\* Variant: only the empty string is tested (if websites_env == "").
ConfigMissingOnlyEmpty(v) == v.set /\ v.val = <<>>

\* if not websites_env
ConfigMissing(v) == ~v.set \/ v.val = <<>>

\* Variant: the body of a failed response is hashed too.
get_page_hash_any(r) == IF r.ok THEN sha256(r.body) ELSE sha256("B1")

\* get_page_hash(url), given what the request yielded
get_page_hash(r) == IF r.ok THEN sha256(r.body) ELSE None

\* load_previous_hashes()
load_previous_hashes(f) ==
    CASE f.kind = "dict" -> Dict(f.dict)
      [] f.kind = "list" -> List(f.list)
      [] OTHER -> Dict(EmptyDict)

\* Variant: entries already in the file are kept unless overwritten.
save_hashes_merge(hashes, outcome, f) ==
    CASE outcome = "ok" ->
            Dict([t \in DOMAIN f.dict \cup DOMAIN hashes |->
                    IF t \in DOMAIN hashes THEN hashes[t] ELSE f.dict[t]])
      [] outcome = "unchanged" -> f
      [] OTHER -> FileCorrupt

\* save_hashes(hashes): the write succeeds, fails before the file is
\* truncated, or fails after it.
SaveOutcomes == {"ok", "unchanged", "corrupt"}
save_hashes(hashes, outcome, f) ==
    CASE outcome = "ok" -> Dict(hashes)
      [] outcome = "unchanged" -> f
      [] OTHER -> FileCorrupt

\* url in previous_hashes
InPrevious(url, prev) ==
    IF prev.kind = "dict" THEN url \in DOMAIN prev.dict
    ELSE \E k \in 1..Len(prev.list) : prev.list[k] = url

\* previous_hashes[url] raises TypeError on a list
LookupRaises(url, prev) == prev.kind = "list"

\* Variant: the comparison is inverted (==).
HashEquals(url, prev, h) == prev.dict[url] = h

\* previous_hashes[url] != current_hash
HashDiffers(url, prev, h) == prev.dict[url] # h

\* Variant: an entry already stored is not overwritten (setdefault).
StoreKeepFirst(d, url, h) == [t \in DOMAIN d \cup {url} |-> IF t \in DOMAIN d THEN d[t] ELSE h]

\* current_hashes[url] = current_hash
Store(d, url, h) == [t \in DOMAIN d \cup {url} |-> IF t = url THEN h ELSE d[t]]

\* Variant: a URL seen for the first time is reported as changed.
CompareFirstSeen(changed, url, prev, h) ==
    IF ~InPrevious(url, prev) \/ HashDiffers(url, prev, h)
    THEN Append(changed, url)
    ELSE changed

\* changed_sites after the comparison of lines 233-240
Compare(changed, url, prev, h) ==
    IF InPrevious(url, prev) /\ HashDiffers(url, prev, h)
    THEN Append(changed, url)
    ELSE changed

(* -------------------------------------------------------------- actions *)
Fresh ==
    /\ pc = "main"
    /\ websites = <<>>
    /\ email_works = FALSE
    /\ previous_hashes = Dict(EmptyDict)
    /\ current_hashes = EmptyDict
    /\ changed_sites = <<>>
    /\ fetched = <<>>
    /\ saved = "none"
    /\ ops = {}
    /\ email = NotCalled
    /\ discord = NotCalled
    /\ stdout = {}
    /\ exit_code = -1

Init ==
    /\ env \in Environments
    /\ file \in Files
    /\ hist = <<>>
    /\ Fresh

\* main, lines 196-211
Configure ==
    /\ pc = "main"
    /\ IF ConfigMissing(env.WEBSITES_TO_MONITOR)
       THEN /\ stdout' = stdout \cup {"WEBSITES_TO_MONITOR not set"}
            /\ pc' = "done"
            /\ exit_code' = 1
            /\ UNCHANGED websites
       ELSE /\ websites' = ParseWebsites(env.WEBSITES_TO_MONITOR.val)
            /\ pc' = "test_email"
            /\ UNCHANGED <<stdout, exit_code>>
    /\ UNCHANGED <<env, file, hist, email_works, previous_hashes, current_hashes,
                   changed_sites, fetched, saved, ops, email, discord>>

\* main, lines 213-215, and test_email_connection
TestEmail ==
    /\ pc = "test_email"
    /\ IF ~env.SENDER_EMAIL \/ ~env.SENDER_PASSWORD
       THEN /\ email_works' = FALSE
            /\ UNCHANGED ops
       ELSE /\ email_works' \in BOOLEAN
            /\ ops' = ops \cup {"smtp_test"}
    /\ pc' = "load"
    /\ UNCHANGED <<env, file, hist, websites, previous_hashes, current_hashes,
                   changed_sites, fetched, saved, email, discord, stdout, exit_code>>

\* main, lines 217-221
Load ==
    /\ pc = "load"
    /\ previous_hashes' = load_previous_hashes(file)
    /\ ops' = ops \cup {"file_read"}
    /\ stdout' = stdout \cup (IF file.kind = "corrupt" THEN {"Error loading previous hashes"} ELSE {})
    /\ pc' = IF websites = <<>> THEN "save" ELSE "check"
    /\ UNCHANGED <<env, file, hist, websites, email_works, current_hashes,
                   changed_sites, fetched, saved, email, discord, exit_code>>

\* main, lines 225-242: one iteration of the loop
CheckWebsite ==
    /\ pc = "check"
    /\ \E r \in FetchOutcomes :
        LET url == websites[Len(fetched) + 1]
            current_hash == get_page_hash(r)
        IN  /\ fetched' = Append(fetched, r)
            /\ ops' = ops \cup {"http_get"}
            /\ IF current_hash # None
               THEN /\ current_hashes' = Store(current_hashes, url, current_hash)
                    /\ IF InPrevious(url, previous_hashes) /\ LookupRaises(url, previous_hashes)
                       THEN /\ pc' = "crashed"
                            /\ exit_code' = 1
                            /\ UNCHANGED changed_sites
                       ELSE /\ changed_sites' = Compare(changed_sites, url, previous_hashes, current_hash)
                            /\ pc' = IF Len(fetched) + 1 = Len(websites) THEN "save" ELSE "check"
                            /\ UNCHANGED exit_code
               ELSE /\ pc' = IF Len(fetched) + 1 = Len(websites) THEN "save" ELSE "check"
                    /\ UNCHANGED <<current_hashes, changed_sites, exit_code>>
    /\ UNCHANGED <<env, file, hist, websites, email_works, previous_hashes,
                   saved, email, discord, stdout>>

\* main, lines 244-246
Save ==
    /\ pc = "save"
    /\ \E outcome \in SaveOutcomes :
        /\ saved' = outcome
        /\ file' = save_hashes(current_hashes, outcome, file)
        /\ stdout' = stdout \cup (IF outcome = "ok" THEN {} ELSE {"Error saving hashes"})
    /\ ops' = ops \cup {"file_write"}
    /\ pc' = "notify"
    /\ UNCHANGED <<env, hist, websites, email_works, previous_hashes, current_hashes,
                   changed_sites, fetched, email, discord, exit_code>>

\* send_email_notification(changed_sites), given what the SMTP session yields
send_email_notification(changed, e, outcome) ==
    [called |-> TRUE, arg |-> changed,
     result |-> IF ~(e.SENDER_EMAIL /\ e.SENDER_PASSWORD /\ e.RECEIVER_EMAIL)
                THEN "unconfigured" ELSE outcome]

\* send_discord_notification(changed_sites), given what the POST yields
send_discord_notification(changed, e, outcome) ==
    [called |-> TRUE, arg |-> changed,
     result |-> IF ~e.DISCORD_WEBHOOK_URL THEN "unconfigured" ELSE outcome]

\* if changed_sites
ShouldNotify(changed) == changed # <<>>

\* Variant: the result of the connection test is ignored.
EmailGateAlways(works) == TRUE

\* if email_works
EmailGate(works) == works

\* The operation a notification call performed, if it reached the network.
Traffic(call, op) == IF call.result \in {"sent", "failed"} THEN {op} ELSE {}

\* main, lines 248-266
Notify ==
    /\ pc = "notify"
    /\ IF ShouldNotify(changed_sites)
       THEN \E eo \in {"sent", "failed"}, dout \in {"sent", "failed"} :
              /\ email' = IF EmailGate(email_works)
                          THEN send_email_notification(changed_sites, env, eo)
                          ELSE NotCalled
              /\ discord' = send_discord_notification(changed_sites, env, dout)
              /\ ops' = ops \cup Traffic(email', "smtp_send") \cup Traffic(discord', "webhook_post")
       ELSE UNCHANGED <<email, discord, ops>>
    /\ stdout' = stdout \cup (IF ShouldNotify(changed_sites) /\ ~EmailGate(email_works)
                               THEN {"Skipping email notification"} ELSE {})
    /\ pc' = "done"
    /\ exit_code' = 0
    /\ UNCHANGED <<env, file, hist, websites, email_works, previous_hashes,
                   current_hashes, changed_sites, fetched, saved>>

\* What is kept of an invocation once it has ended.
Summary ==
    [ended |-> pc, websites |-> websites, fetched |-> fetched, saved |-> saved,
     changed |-> changed_sites, file |-> file]

\* The scheduler starts the next invocation, with the same environment,
\* after the previous one has ended (lines 268-270).
Restart ==
    /\ pc \in {"done", "crashed"}
    /\ hist' = IF Len(hist) < 2 THEN Append(hist, Summary) ELSE <<hist[2], Summary>>
    /\ pc' = "main"
    /\ websites' = <<>>
    /\ email_works' = FALSE
    /\ previous_hashes' = Dict(EmptyDict)
    /\ current_hashes' = EmptyDict
    /\ changed_sites' = <<>>
    /\ fetched' = <<>>
    /\ saved' = "none"
    /\ ops' = {}
    /\ email' = NotCalled
    /\ discord' = NotCalled
    /\ stdout' = {}
    /\ exit_code' = -1
    /\ UNCHANGED <<env, file>>

Main == Configure \/ TestEmail \/ Load \/ CheckWebsite \/ Save \/ Notify

Next == Main

Spec == Init /\ [][Next]_vars

\* Repeated invocations by the scheduler, of a job that monitors one
\* target, two targets, or one target written twice, with both channels
\* configured.
ScheduledLists == {<<"a">>, <<"a", ",", "b">>, <<"a", ",", "a">>}

InitRuns ==
    /\ env \in [WEBSITES_TO_MONITOR : [set : {TRUE}, val : ScheduledLists],
                 SENDER_EMAIL : {TRUE}, SENDER_PASSWORD : {TRUE},
                 RECEIVER_EMAIL : {TRUE}, DISCORD_WEBHOOK_URL : {TRUE}]
    /\ file \in Files
    /\ hist = <<>>
    /\ Fresh

NextRuns == Main \/ Restart

SpecRuns == InitRuns /\ [][NextRuns]_vars

(* --------------------------------------------------------------- claims *)
Range(q) == {q[k] : k \in 1..Len(q)}
Count(q, t) == Cardinality({k \in 1..Len(q) : q[k] = t})
\* The entries of a loaded state: the keys of an object, the items of an array.
Known(prev) == IF prev.kind = "dict" THEN DOMAIN prev.dict ELSE Range(prev.list)
\* Targets with a successful fetch, given a target list and the fetches made.
Succeeded(ws, fs) == {ws[j] : j \in {k \in 1..Len(fs) : fs[k].ok}}
\* Targets that were fetched and never successfully.
OnlyFailed(ws, fs) == {ws[j] : j \in 1..Len(fs)} \ Succeeded(ws, fs)
\* Digest of the last successful fetch of t.
LastDigest(ws, fs, t) ==
    LET j == CHOOSE k \in 1..Len(fs) :
                 /\ ws[k] = t /\ fs[k].ok
                 /\ \A m \in (k+1)..Len(fs) : ~(ws[m] = t /\ fs[m].ok)
    IN  sha256(fs[j].body)
\* Every fetch of a list succeeded, and a target written twice returned one body.
AllFetched(ws, fs) ==
    /\ Len(fs) = Len(ws)
    /\ \A j \in 1..Len(fs) : fs[j].ok
    /\ \A j, k \in 1..Len(fs) : ws[j] = ws[k] => fs[j] = fs[k]
AfterSave == pc \in {"notify", "done"}
EmailConfigured == env.SENDER_EMAIL /\ env.SENDER_PASSWORD /\ env.RECEIVER_EMAIL

\* C1: a target that is absent from the previously loaded state is never put
\* in changed_sites, whatever its fetched digest; a successful fetch of such a
\* target is only recorded in current_hashes.
C1_FirstSeenNeverChanged ==
    /\ \A k \in 1..Len(changed_sites) : changed_sites[k] \in Known(previous_hashes)
    /\ \A j \in 1..Len(fetched) :
         (fetched[j].ok /\ websites[j] \notin Known(previous_hashes))
            => /\ websites[j] \in DOMAIN current_hashes
               /\ websites[j] \notin Range(changed_sites)

\* C1 witness: a run has ended in which one target was reported as changed and
\* another, fetched successfully, was not in the previous state.
C1_Witness ==
    /\ pc = "done"
    /\ changed_sites # <<>>
    /\ \E j \in 1..Len(fetched) :
         fetched[j].ok /\ websites[j] \notin Known(previous_hashes)

\* C2: at the end of a run, every target fetched successfully with a digest
\* different from the one stored for it in the previous state occurs exactly
\* once in changed_sites, also when the list names a URL more than once.
C2_ChangedExactlyOnce ==
    pc = "done" =>
        \A j \in 1..Len(fetched) :
            ( /\ fetched[j].ok
              /\ previous_hashes.kind = "dict"
              /\ websites[j] \in DOMAIN previous_hashes.dict
              /\ previous_hashes.dict[websites[j]] # sha256(fetched[j].body) )
            => Count(changed_sites, websites[j]) = 1

\* C3: a target whose fetch fails in a run (no fetch of it succeeds) is not in
\* changed_sites, not in the mapping handed to save_hashes and, once that
\* mapping is written, not in the state file, even if the previous state
\* held an entry for it.
C3_FailedTargetDropped ==
    \A t \in OnlyFailed(websites, fetched) :
        /\ t \notin Range(changed_sites)
        /\ t \notin DOMAIN current_hashes
        /\ (AfterSave /\ saved = "ok") => (file.kind = "dict" /\ t \notin DOMAIN file.dict)

\* C3 witness: a run has ended with a successful write in which a target that
\* had an entry in the previous state failed to fetch.
C3_Witness ==
    /\ pc = "done"
    /\ saved = "ok"
    /\ \E t \in OnlyFailed(websites, fetched) : t \in Known(previous_hashes)

\* C4: after a successful write the state file is exactly the mapping from
\* each target fetched successfully in this run to the digest computed in this
\* run; it has no entry for a target outside the current list.
C4_StoreIsThisRunsFetches ==
    (AfterSave /\ saved = "ok") =>
        /\ file.kind = "dict"
        /\ DOMAIN file.dict = Succeeded(websites, fetched)
        /\ DOMAIN file.dict \subseteq Range(websites)
        /\ \A t \in DOMAIN file.dict : file.dict[t] = LastDigest(websites, fetched, t)

\* C4 witness: a successful write removed the entry of a target that is no
\* longer configured and replaced the digest of one that is.
C4_Witness ==
    /\ pc = "done"
    /\ saved = "ok"
    /\ \E t \in Known(previous_hashes) : t \notin Range(websites)
    /\ \E t \in DOMAIN file.dict :
         t \in Known(previous_hashes) /\ previous_hashes.dict[t] # file.dict[t]

\* C5: with WEBSITES_TO_MONITOR unset, main reports the missing configuration
\* and returns non-zero, having done no network operation and no read or write
\* of the state file.
C5_UnsetAbortsBeforeAnyActivity ==
    ~env.WEBSITES_TO_MONITOR.set =>
        /\ pc \in {"main", "done"}
        /\ ops = {}
        /\ saved = "none"
        /\ ~email.called /\ ~discord.called
        /\ pc = "done" => (exit_code # 0 /\ "WEBSITES_TO_MONITOR not set" \in stdout)

\* C5 witness: main has returned with WEBSITES_TO_MONITOR unset.
C5_Witness == pc = "done" /\ ~env.WEBSITES_TO_MONITOR.set

\* C6: main returns non-zero exactly when the target list is unset, empty or
\* resolves to no target after splitting, trimming and dropping empty entries.
C6_ExitStatus ==
    pc = "done" =>
        (exit_code # 0 <=> \/ ~env.WEBSITES_TO_MONITOR.set
                           \/ ParseWebsites(env.WEBSITES_TO_MONITOR.val) = <<>>)

C8_PersistenceErrorNeverAborts ==
    /\ (pc \in {"check", "save", "crashed"} /\ file.kind # "dict") =>
          (pc # "crashed" /\ changed_sites = <<>>)
    /\ (pc = "done" /\ saved \in {"unchanged", "corrupt"}) =>
          /\ exit_code = 0
          /\ changed_sites # <<>> => discord.called

\* C9: a target fetched successfully in one run and not in the next, both with
\* successful writes, is not in changed_sites of the run after that, whatever
\* its digest then, and a successful write of that run stores that digest.
C9_RefetchedIsFirstSeen ==
    Len(hist) = 2 =>
        \A t \in Succeeded(websites, fetched) :
            ( /\ hist[1].ended = "done" /\ hist[1].saved = "ok"
              /\ t \in Succeeded(hist[1].websites, hist[1].fetched)
              /\ hist[2].ended = "done" /\ hist[2].saved = "ok"
              /\ t \in OnlyFailed(hist[2].websites, hist[2].fetched) )
            => /\ t \notin Range(changed_sites)
               /\ (AfterSave /\ saved = "ok") =>
                     /\ file.kind = "dict"
                     /\ t \in DOMAIN file.dict
                     /\ file.dict[t] = LastDigest(websites, fetched, t)

\* C9 witness: the third run has ended with a successful write, the target's
\* digest being different from the one of the first run.
C9_Witness ==
    /\ Len(hist) = 2
    /\ pc = "done"
    /\ saved = "ok"
    /\ \E t \in Succeeded(websites, fetched) :
         /\ hist[1].ended = "done" /\ hist[1].saved = "ok"
         /\ t \in Succeeded(hist[1].websites, hist[1].fetched)
         /\ hist[2].ended = "done" /\ hist[2].saved = "ok"
         /\ t \in OnlyFailed(hist[2].websites, hist[2].fetched)
         /\ LastDigest(websites, fetched, t)
              # LastDigest(hist[1].websites, hist[1].fetched, t)

\* The run that has just ended fetched every target successfully, as the run
\* before it did, with the same body per target.
RepeatedRun ==
    /\ Len(hist) >= 1
    /\ pc = "done"
    /\ hist[Len(hist)].ended = "done"
    /\ AllFetched(hist[Len(hist)].websites, hist[Len(hist)].fetched)
    /\ websites = hist[Len(hist)].websites
    /\ fetched = hist[Len(hist)].fetched

\* C10 as stated: the second of two consecutive runs that fetch the same body
\* for every target has an empty changed_sites and invokes no channel, and
\* the state it persists is the state the first run persisted.
C10_RepeatedRunIdempotent ==
    RepeatedRun =>
        /\ changed_sites = <<>>
        /\ ~email.called /\ ~discord.called
        /\ (hist[Len(hist)].saved = "ok" /\ saved = "ok") => file = hist[Len(hist)].file

\* C10 amended: if the first run's write succeeded, the second run computes the
\* digests the first stored, has an empty changed_sites and invokes no
\* channel; if its own write succeeds too, the state file is as the first run
\* left it.
C10_IdempotentAfterSuccessfulWrite ==
    (RepeatedRun /\ hist[Len(hist)].saved = "ok") =>
        /\ current_hashes = hist[Len(hist)].file.dict
        /\ changed_sites = <<>>
        /\ ~email.called /\ ~discord.called
        /\ saved = "ok" => file = hist[Len(hist)].file

\* C10 witness: the first run reported a change on a list of two targets and
\* the second, with both writes successful, reported none.
C10_Witness ==
    /\ RepeatedRun
    /\ hist[Len(hist)].saved = "ok"
    /\ saved = "ok"
    /\ Len(websites) = 2
    /\ hist[Len(hist)].changed # <<>>
====
